---- MODULE Spec2Model ----
(***************************************************************************)
(* Resumable batch updater of product descriptions                        *)
(* (openai_enhanced_updater.py), the progress-file repair script           *)
(* (fix_and_extract.py) and the inspection scripts (show_next_30.py,       *)
(* debug_progress.py, extract_next_10_products.py).  The source table, the *)
(* progress file, the two output tables, the memory of the running         *)
(* updater process and the memory of a running script are the state; one   *)
(* action per handler or per interruptible step of a loop.                 *)
(*   Spec        updater runs, signals, failed saves, reset and repair     *)
(*   SpecCrash   Spec with the death of the process inside a save          *)
(*   FairSpec    one updater process with the scheduling of its handler    *)
(*   SpecTools   read_csv and the scripts over any table and progress file *)
(*   SpecRecord  lines 560-562 applied to any key on any checkpoint state  *)
(*   SpecSource  Spec with a source table that is missing or unreadable    *)
(*   FairRun     one run of the updater or of show_next_30, scheduled      *)
(*   SpecRepair  fix_and_extract followed by an updater run up to read_csv *)
(***************************************************************************)
EXTENDS Integers, Sequences, FiniteSets, TLC

\* ------------------------------------------------------------------ bounds
MaxRows == 2        \* rows of the source table
MaxRuns == 2        \* updater processes started in one behaviour
MaxSignals == 1     \* SIGINT/SIGTERM deliveries in one behaviour
MaxFaults == 1      \* failed saves, failed API calls and loop exceptions
                    \* in one behaviour

\* ------------------------------------------------------------- data domain
Handles == {"a", "b"}

\* values of the max_products argument: main always passes a positive
\* limit (50 at line 846), scaled here to the size of the tables; 0 stands
\* for None, the default of the constructor, which main never uses
Limits == {1, 2}

ProductRow(h) == [Handle |-> h, Title |-> "T", Body |-> "B"]
VariantRow(h) == [Handle |-> h, Title |-> "", Body |-> ""]
BlankTitleRow(h) == [Handle |-> h, Title |-> " ", Body |-> "B"]

Rows == {ProductRow(h) : h \in Handles} \cup {VariantRow("a"), BlankTitleRow("b")}

SeqsUpTo(S, n) == UNION {[1..m -> S] : m \in 0..n}

Catalogs == SeqsUpTo(Rows, MaxRows)

\* str.strip() on the field values that occur in the tables
Strip(s) == CASE s = " " -> ""
              [] s = " a" -> "a"
              [] OTHER -> s

EmptyMap == [k \in {} |-> ""]

\* content returned by the OpenAI call for product k
AiHtml(k) == IF k = "a" THEN "ai:a" ELSE "ai:b"

\* generate_fallback_description
generate_fallback_description(k) ==
    IF k = "a" THEN "fallback:a" ELSE "fallback:b"

\* a generation step whose except clause returns no content
generate_openai_description_nofallback(k, apiOk) ==
    IF apiOk THEN AiHtml(k) ELSE ""

\* generate_openai_description: the API call, and the fallback in its
\* except clause
generate_openai_description(k, apiOk) ==
    IF apiOk THEN AiHtml(k) ELSE generate_fallback_description(k)

\* -------------------------------------------------------- progress file
\* list(a_set), line 89: the elements in an order the implementation picks
\* (every reader of the file applies set() to the list)
RECURSIVE list(_)
list(S) ==
    IF S = {} THEN <<>>
    ELSE LET x == CHOOSE y \in S : TRUE IN <<x>> \o list(S \ {x})

\* set(a_list), line 104
set(s) == {s[n] : n \in 1..Len(s)}

\* the pickled dictionary: up is 'updated_products', ph the list stored
\* under 'processed_handles'
AbsentFile == [status |-> "absent", up |-> EmptyMap, ph |-> <<>>]
TruncFile == [status |-> "trunc", up |-> EmptyMap, ph |-> <<>>]
OkFile(up, ph) == [status |-> "ok", up |-> up, ph |-> ph]

\* a save_progress that writes an empty 'processed_handles' list
save_progress_no_handles(f, up, ph, outcome) ==
    CASE outcome = "ok" -> OkFile(up, <<>>)
      [] outcome = "open_fail" -> f
      [] OTHER -> TruncFile

\* a save_progress that leaves the file as it finds it
save_progress_noop(f, up, ph, outcome) == f

\* save_progress as a whole; outcome is what the file system does:
\*   "ok"         open and dump succeed
\*   "open_fail"  open(..., 'wb') raises, the file is untouched
\*   "write_fail" open truncated the file and the dump raised
save_progress(f, up, ph, outcome) ==
    CASE outcome = "ok" -> OkFile(up, list(ph))
      [] outcome = "open_fail" -> f
      [] OTHER -> TruncFile

SaveOutcomes == {"ok", "open_fail", "write_fail"}

\* a load_progress that restores the processed set and not the contents
load_progress_noup(f) ==
    IF f.status = "ok" THEN <<EmptyMap, set(f.ph)>> ELSE <<EmptyMap, {}>>

\* a load_progress that restores the contents and forgets the processed set
load_progress_noph(f) ==
    IF f.status = "ok" THEN <<f.up, {}>> ELSE <<EmptyMap, {}>>

\* load_progress on a fresh object (both fields empty): the pair
\* <<updated_products, processed_handles>> after the call
\* an absent file leaves them empty, and so does a file pickle.load cannot
\* read (the except clause of line 115)
load_progress(f) ==
    IF f.status = "ok" THEN <<f.up, set(f.ph)>> ELSE <<EmptyMap, {}>>

\* load_progress met an exception
LoadFailed(f) == f.status = "trunc"

\* ------------------------------------------------------------ output table
\* a writer that replaces the description of every row of a completed key
write_updated_csv_every_row(rows, up) ==
    [n \in 1..Len(rows) |->
        IF Strip(rows[n].Handle) \in DOMAIN up
        THEN [rows[n] EXCEPT !.Body = up[Strip(rows[n].Handle)]]
        ELSE rows[n]]

\* write_updated_csv, the loop of lines 588-595: the row is rewritten when
\* its handle is completed and its title and description are non-empty
write_updated_csv(rows, up) ==
    [n \in 1..Len(rows) |->
        IF /\ Strip(rows[n].Handle) \in DOMAIN up
           /\ Strip(rows[n].Title) # ""
           /\ Strip(rows[n].Body) # ""
        THEN [rows[n] EXCEPT !.Body = up[Strip(rows[n].Handle)]]
        ELSE rows[n]]

NotWritten == [written |-> FALSE, rows |-> <<>>]
Written(t) == [written |-> TRUE, rows |-> t]

\* ------------------------------------------------------------- read_csv
\* a condition that tests title and description as they stand, untrimmed
Qualifies_untrimmed(row, ph) ==
    /\ row.Title # ""
    /\ row.Body # ""
    /\ Strip(row.Handle) # ""
    /\ Strip(row.Handle) \notin ph

\* the condition of line 137 for one row
Qualifies(row, ph) ==
    /\ Strip(row.Title) # ""
    /\ Strip(row.Body) # ""
    /\ Strip(row.Handle) # ""
    /\ Strip(row.Handle) \notin ph

\* the slice of update_product_descriptions (lines 527-535); the early
\* return of line 534 is the empty batch
\* read_csv as a whole (lines 127-166) on the first n rows: the product
\* list, by handle, and the processed set it ends with
RECURSIVE read_csv_rows(_, _, _)
read_csv_rows(rows, ph, n) ==
    IF n = 0 THEN <<<<>>, ph>>
    ELSE LET prev == read_csv_rows(rows, ph, n - 1)
         IN IF Qualifies(rows[n], prev[2])
            THEN <<Append(prev[1], Strip(rows[n].Handle)),
                   prev[2] \cup {Strip(rows[n].Handle)}>>
            ELSE prev

read_csv(rows, ph) == read_csv_rows(rows, ph, Len(rows))

\* a slice that ignores its bound
Take_unbounded(s, n) == s

Take(s, n) == SubSeq(s, 1, IF n < Len(s) THEN n ELSE Len(s))

\* an early return taken only when the limit is exceeded
LimitReached_strict(mp, up) == mp # 0 /\ mp - Cardinality(DOMAIN up) < 0

LimitReached(mp, up) == mp # 0 /\ mp - Cardinality(DOMAIN up) <= 0

\* a slice that takes one candidate more than the limit leaves room for
products_to_process_one_more(prods, mp, up) ==
    IF mp = 0 THEN prods
    ELSE IF mp - Cardinality(DOMAIN up) <= 0 THEN <<>>
    ELSE Take(prods, mp - Cardinality(DOMAIN up) + 1)

\* a batch taken from the end of the list, last candidate first
products_to_process_reversed(prods, mp, up) ==
    LET n == IF mp = 0 \/ mp - Cardinality(DOMAIN up) > Len(prods)
             THEN Len(prods)
             ELSE IF mp - Cardinality(DOMAIN up) <= 0 THEN 0
             ELSE mp - Cardinality(DOMAIN up)
    IN [j \in 1..n |-> prods[Len(prods) + 1 - j]]

\* a slice that takes the limit per run instead of cumulatively
products_to_process_per_run(prods, mp, up) ==
    IF mp = 0 THEN prods ELSE Take(prods, mp)

products_to_process(prods, mp, up) ==
    IF mp = 0 THEN prods
    ELSE IF mp - Cardinality(DOMAIN up) <= 0 THEN <<>>
    ELSE Take(prods, mp - Cardinality(DOMAIN up))

\* show_progress_status (lines 785-802): what it prints, the line "All
\* products in batch completed" being the field completed
show_progress_status(mp, up) ==
    LET total_processed == Cardinality(DOMAIN up)
        remaining == IF mp - total_processed > 0 THEN mp - total_processed ELSE 0
    IN IF mp # 0
       THEN [processed |-> total_processed, remaining |-> remaining,
             limit |-> mp, completed |-> (remaining = 0)]
       ELSE [processed |-> total_processed]

\* a record that keeps the content a key already has
record_keeps_first(up, ph, k, v) == <<up @@ (k :> v), ph \cup {k}>>

\* lines 561-562: the dictionary assignment and the set insertion, as the
\* pair <<updated_products, processed_handles>> after both
record(up, ph, k, v) == <<(k :> v) @@ up, ph \cup {k}>>

\* ------------------------------------------------------------------ state
VARIABLES
    csv,                \* the source table
    file,               \* the progress file
    output_csv,         \* the table the latest process wrote at the end of main
    partial_export,     \* the table its export_partial_results wrote
    pc,                 \* position of the updater process, "idle" = none
    max_products,
    updated_products,
    processed_handles,
    products,           \* self.products, by handle
    to_process,         \* products_to_process
    row_i,              \* read_csv's position in the source table
    i,                  \* index of the batch loop
    optimized_html,     \* the local of line 560
    gen_calls,          \* history: invocations of the generation step
    io_failed,          \* history: some load or persist failed
    last_save,          \* history: outcome of the latest save_progress
    reset_done,         \* history: reset_progress ran
    reconciled,         \* history: the repair of fix_and_extract ran
    runs,               \* history: processes started
    sigs,               \* history: signals delivered
    faults,             \* history: failed saves, API calls and loop exceptions
    at_signal,          \* history: position and memory when the first signal came
    api_failed,         \* history: keys whose OpenAI call failed in this process
    crashed,            \* history: the latest process death inside save
    exit_code,          \* the status main returned to the shell, "none" while it runs
    persisted,          \* history: the contents last saved in full since the last reset
    tool                \* the memory of a running inspection or repair script

vars == <<csv, file, output_csv, partial_export, pc, max_products,
          updated_products, processed_handles, products, to_process,
          row_i, i, optimized_html, gen_calls, io_failed, last_save,
          reset_done, reconciled, runs, sigs, faults, at_signal, api_failed,
          crashed, exit_code, persisted, tool>>

\* no script is running
NoTool == [name |-> "none", at |-> "none", limit |-> 0,
           processed_handles |-> {}, loaded_handles |-> {}, row |-> 1, unique_products |-> <<>>,
           next_products |-> <<>>, all_rows |-> <<>>,
           written |-> FALSE, output_rows |-> <<>>]

NoCrash == [in_save |-> FALSE, key |-> "", up |-> EmptyMap, ph |-> {}]
NoSignal == [pc |-> "idle", up |-> EmptyMap, ph |-> {}]

Init ==
    /\ csv \in Catalogs
    /\ file = AbsentFile
    /\ output_csv = NotWritten
    /\ partial_export = NotWritten
    /\ pc = "idle"
    /\ max_products = 0
    /\ updated_products = EmptyMap
    /\ processed_handles = {}
    /\ products = <<>>
    /\ to_process = <<>>
    /\ row_i = 1
    /\ i = 1
    /\ optimized_html = ""
    /\ gen_calls = [k \in Handles |-> 0]
    /\ io_failed = FALSE
    /\ last_save = "none"
    /\ reset_done = FALSE
    /\ reconciled = FALSE
    /\ runs = 0
    /\ sigs = 0
    /\ faults = 0
    /\ at_signal = NoSignal
    /\ api_failed = {}
    /\ exit_code = "none"
    /\ persisted = IF file.status = "ok" THEN file.up ELSE EmptyMap
    /\ crashed = NoCrash
    /\ tool = NoTool

\* the memory of a process that has ended
ProcessGone ==
    /\ pc' = "idle"
    /\ max_products' = 0
    /\ updated_products' = EmptyMap
    /\ processed_handles' = {}
    /\ products' = <<>>
    /\ to_process' = <<>>
    /\ row_i' = 1
    /\ i' = 1
    /\ optimized_html' = ""
    /\ last_save' = "none"
    /\ at_signal' = NoSignal
    /\ api_failed' = {}

Source == <<csv, tool>>
Files == <<file, output_csv, partial_export, persisted>>

\* the history of the saved contents: a readable file holds them, a removed
\* file holds none, a truncated file leaves the history as it is
Persist ==
    persisted' = IF file'.status = "ok" THEN file'.up
                 ELSE IF file'.status = "absent" THEN EmptyMap
                 ELSE persisted
Marks == <<at_signal, api_failed, exit_code>>
History == <<gen_calls, io_failed, reset_done, reconciled, runs, crashed>>
Counts == <<sigs, faults>>

\* main, lines 846-848: the constructor with its load_progress
Start ==
    /\ pc = "idle"
    /\ runs < MaxRuns
    /\ \E mp \in Limits : max_products' = mp
    /\ updated_products' = load_progress(file)[1]
    /\ processed_handles' = load_progress(file)[2]
    /\ io_failed' = (io_failed \/ LoadFailed(file))
    /\ pc' = "read"
    /\ row_i' = 1
    /\ products' = <<>>
    /\ runs' = runs + 1
    /\ crashed' = NoCrash
    /\ output_csv' = NotWritten
    /\ partial_export' = NotWritten
    /\ exit_code' = "none"
    /\ UNCHANGED <<at_signal, api_failed, Source, file, persisted, to_process, i, optimized_html, gen_calls,
                   last_save, reset_done, reconciled, Counts>>

\* a reader that lists the product and leaves processed_handles alone
ReadRow_no_add ==
    /\ pc = "read"
    /\ row_i <= Len(csv)
    /\ IF Qualifies(csv[row_i], processed_handles)
       THEN products' = Append(products, Strip(csv[row_i].Handle))
       ELSE UNCHANGED products
    /\ row_i' = row_i + 1
    /\ UNCHANGED <<Marks, Source, Files, pc, max_products, updated_products,
                   processed_handles, to_process, i, optimized_html, last_save,
                   History, Counts>>

\* read_csv, one row of the loop of lines 132-165
ReadRow ==
    /\ pc = "read"
    /\ row_i <= Len(csv)
    /\ IF Qualifies(csv[row_i], processed_handles)
       THEN /\ products' = Append(products, Strip(csv[row_i].Handle))
            /\ processed_handles' = processed_handles \cup {Strip(csv[row_i].Handle)}
       ELSE UNCHANGED <<products, processed_handles>>
    /\ row_i' = row_i + 1
    /\ UNCHANGED <<Marks, Source, Files, pc, max_products, updated_products, to_process,
                   i, optimized_html, last_save, History, Counts>>

\* end of read_csv and lines 526-536 of update_product_descriptions
UpdateStart ==
    /\ pc = "read"
    /\ row_i > Len(csv)
    /\ to_process' = products_to_process(products, max_products, updated_products)
    /\ i' = 1
    /\ pc' = IF LimitReached(max_products, updated_products) THEN "write" ELSE "loop"
    /\ UNCHANGED <<Marks, Source, Files, max_products, updated_products, processed_handles,
                   products, row_i, optimized_html, last_save, History, Counts>>

\* lines 538-544: the loop head and the skip of a completed handle
LoopHead ==
    /\ pc = "loop"
    /\ IF i > Len(to_process)
       THEN /\ pc' = "write"
            /\ i' = i
       ELSE IF to_process[i] \in DOMAIN updated_products
       THEN /\ pc' = "loop"
            /\ i' = i + 1
       ELSE /\ pc' = "research"
            /\ i' = i
    /\ UNCHANGED <<Marks, Source, Files, max_products, updated_products, processed_handles,
                   products, to_process, row_i, optimized_html, last_save,
                   History, Counts>>

\* a loop that is left at the first exception
Research_stops ==
    /\ pc = "research"
    /\ \E ok \in BOOLEAN :
        IF ok THEN pc' = "generate" /\ i' = i /\ faults' = faults
        ELSE faults < MaxFaults /\ faults' = faults + 1 /\ pc' = "write" /\ i' = i
    /\ UNCHANGED <<Marks, Source, Files, max_products, updated_products, processed_handles,
                   products, to_process, row_i, optimized_html, last_save,
                   History, sigs>>

\* lines 546-558, and 570-573 when an exception reaches the loop
Research ==
    /\ pc = "research"
    /\ \E ok \in BOOLEAN :
        IF ok THEN pc' = "generate" /\ i' = i /\ faults' = faults
        ELSE faults < MaxFaults /\ faults' = faults + 1 /\ pc' = "loop" /\ i' = i + 1
    /\ UNCHANGED <<Marks, Source, Files, max_products, updated_products, processed_handles,
                   products, to_process, row_i, optimized_html, last_save,
                   History, sigs>>

\* line 560
Generate ==
    /\ pc = "generate"
    /\ \E apiOk \in BOOLEAN :
        /\ ~apiOk => faults < MaxFaults
        /\ faults' = IF apiOk THEN faults ELSE faults + 1
        /\ optimized_html' = generate_openai_description(to_process[i], apiOk)
        /\ api_failed' = IF apiOk THEN api_failed ELSE api_failed \cup {to_process[i]}
    /\ gen_calls' = [gen_calls EXCEPT ![to_process[i]] = @ + 1]
    /\ pc' = "record"
    /\ UNCHANGED <<at_signal, exit_code, Source, Files, max_products, updated_products, processed_handles,
                   products, to_process, row_i, i, last_save,
                   io_failed, reset_done, reconciled, runs, crashed, sigs>>

\* line 561
Record ==
    /\ pc = "record"
    /\ updated_products' = record(updated_products, processed_handles,
                                  to_process[i], optimized_html)[1]
    /\ pc' = "mark"
    /\ UNCHANGED <<Marks, Source, Files, max_products, processed_handles, products,
                   to_process, row_i, i, optimized_html, last_save, History, Counts>>

\* line 562
Mark ==
    /\ pc = "mark"
    /\ processed_handles' = record(updated_products, processed_handles,
                                   to_process[i], optimized_html)[2]
    /\ pc' = "save_open"
    /\ UNCHANGED <<Marks, Source, Files, max_products, updated_products, products,
                   to_process, row_i, i, optimized_html, last_save, History, Counts>>

\* line 565, save_progress up to open(..., 'wb') of line 91
SaveOpen ==
    /\ pc = "save_open"
    /\ \E ok \in BOOLEAN :
        IF ok
        THEN /\ file' = TruncFile
             /\ pc' = "save_dump"
             /\ UNCHANGED <<i, optimized_html, last_save, io_failed, faults>>
        ELSE /\ faults < MaxFaults
             /\ faults' = faults + 1
             /\ file' = save_progress(file, updated_products, processed_handles,
                                      "open_fail")
             /\ last_save' = "open_fail"
             /\ io_failed' = TRUE
             /\ pc' = "loop"
             /\ i' = i + 1
             /\ optimized_html' = ""
    /\ UNCHANGED <<Marks, Source, output_csv, partial_export, max_products,
                   updated_products, processed_handles, products, to_process,
                   row_i, sigs, gen_calls, reset_done, reconciled, runs,
                   crashed>>
    /\ Persist

\* a save whose failure ends the process
SaveDump_fatal ==
    /\ pc = "save_dump"
    /\ \E outcome \in {"ok", "write_fail"} :
        /\ file' = save_progress(file, updated_products, processed_handles, outcome)
        /\ io_failed' = (io_failed \/ outcome # "ok")
        /\ outcome # "ok" => faults < MaxFaults
        /\ faults' = IF outcome = "ok" THEN faults ELSE faults + 1
        /\ IF outcome = "ok"
           THEN /\ pc' = "loop"
                /\ i' = i + 1
                /\ optimized_html' = ""
                /\ last_save' = outcome
                /\ UNCHANGED <<Marks, max_products, updated_products,
                               processed_handles, products, to_process, row_i>>
           ELSE ProcessGone /\ exit_code' = "1"
    /\ UNCHANGED <<Source, output_csv, partial_export, sigs, gen_calls,
                   reset_done, reconciled, runs, crashed>>
    /\ Persist

\* save_progress from pickle.dump of line 92 on, then lines 567-568
SaveDump ==
    /\ pc = "save_dump"
    /\ \E outcome \in {"ok", "write_fail"} :
        /\ file' = save_progress(file, updated_products, processed_handles, outcome)
        /\ last_save' = outcome
        /\ io_failed' = (io_failed \/ outcome # "ok")
        /\ outcome # "ok" => faults < MaxFaults
        /\ faults' = IF outcome = "ok" THEN faults ELSE faults + 1
    /\ pc' = "loop"
    /\ i' = i + 1
    /\ optimized_html' = ""
    /\ UNCHANGED <<Marks, Source, output_csv, partial_export, max_products,
                   updated_products, processed_handles, products, to_process,
                   row_i, sigs, gen_calls, reset_done, reconciled, runs,
                   crashed>>
    /\ Persist

\* main, lines 861-875: the final table and the normal end of the process
WriteOutput ==
    /\ pc = "write"
    /\ output_csv' = Written(write_updated_csv(csv, updated_products))
    /\ ProcessGone
    /\ exit_code' = "0"
    /\ UNCHANGED <<Source, file, persisted, partial_export, History, Counts>>

\* delivery of SIGINT or SIGTERM to a running update (lines 73-74); the
\* three statements of a --reset process are run without one
Signal ==
    /\ pc \notin {"idle", "reset", "reset_end"}
    /\ sigs < MaxSignals
    /\ sigs' = sigs + 1
    /\ pc' = "h_save"
    /\ at_signal' = IF pc \in {"h_save", "h_export", "h_exit"}
                    THEN at_signal
                    ELSE [pc |-> pc, up |-> updated_products,
                          ph |-> processed_handles]
    /\ UNCHANGED <<api_failed, exit_code, Source, Files, max_products, updated_products, processed_handles,
                   products, to_process, row_i, i, optimized_html, last_save,
                   History, faults>>

\* a handler that goes to the export without saving
HandlerSave_skipped ==
    /\ pc = "h_save"
    /\ pc' = "h_export"
    /\ UNCHANGED <<Marks, Source, Files, max_products, updated_products,
                   processed_handles, products, to_process, row_i, i,
                   optimized_html, last_save, History, Counts>>

\* signal_handler, line 79
HandlerSave ==
    /\ pc = "h_save"
    /\ \E outcome \in SaveOutcomes :
        /\ file' = save_progress(file, updated_products, processed_handles, outcome)
        /\ last_save' = outcome
        /\ io_failed' = (io_failed \/ outcome # "ok")
        /\ outcome # "ok" => faults < MaxFaults
        /\ faults' = IF outcome = "ok" THEN faults ELSE faults + 1
    /\ pc' = "h_export"
    /\ UNCHANGED <<Marks, Source, output_csv, partial_export, max_products,
                   updated_products, processed_handles, products, to_process,
                   row_i, i, optimized_html, sigs, gen_calls, reset_done,
                   reconciled, runs, crashed>>
    /\ Persist

\* signal_handler, line 80: export_partial_results
HandlerExport ==
    /\ pc = "h_export"
    /\ partial_export' = Written(write_updated_csv(csv, updated_products))
    /\ pc' = "h_exit"
    /\ UNCHANGED <<Marks, Source, file, persisted, output_csv, max_products, updated_products,
                   processed_handles, products, to_process, row_i, i,
                   optimized_html, last_save, History, Counts>>

\* a handler that returns to the interrupted loop instead of exiting
HandlerExit_resumes ==
    /\ pc = "h_exit"
    /\ pc' = at_signal.pc
    /\ UNCHANGED <<Marks, Source, Files, max_products, updated_products,
                   processed_handles, products, to_process, row_i, i,
                   optimized_html, last_save, History, Counts>>

\* signal_handler, line 82: sys.exit(0)
HandlerExit ==
    /\ pc = "h_exit"
    /\ ProcessGone
    /\ exit_code' = "0"
    /\ UNCHANGED <<Source, Files, History, Counts>>

\* main --reset up to the call of reset_progress (lines 821-830): the
\* constructor loads the progress file and installs the signal handler.  The
\* limit passed at line 830 is 20, here the larger of the two limits; nothing
\* on this path reads it.  A reset with no progress file has nothing to
\* delete and is left out.
Reset ==
    /\ pc = "idle"
    /\ file.status # "absent"
    /\ max_products' = 2
    /\ updated_products' = load_progress(file)[1]
    /\ processed_handles' = load_progress(file)[2]
    /\ io_failed' = (io_failed \/ LoadFailed(file))
    /\ pc' = "reset"
    /\ crashed' = NoCrash
    /\ exit_code' = "none"
    /\ UNCHANGED <<at_signal, api_failed, Source, Files, products, to_process, row_i, i,
                   optimized_html, last_save, gen_calls, reset_done, reconciled,
                   runs, Counts>>

\* a reset that deletes the file and leaves the memory as loaded
reset_progress_keeps_memory(f, up, ph, outcome) ==
    IF outcome = "ok" THEN <<AbsentFile, up, ph>> ELSE <<f, up, ph>>

\* reset_progress (lines 804-814): the file is removed, then both fields are
\* cleared; an exception of os.remove is caught and leaves all three
reset_progress(f, up, ph, outcome) ==
    IF outcome = "ok" THEN <<AbsentFile, EmptyMap, {}>> ELSE <<f, up, ph>>

\* the call of reset_progress at line 831
ResetProgress ==
    /\ pc = "reset"
    /\ \E outcome \in {"ok", "remove_fail"} :
        /\ outcome # "ok" => faults < MaxFaults
        /\ faults' = IF outcome = "ok" THEN faults ELSE faults + 1
        /\ io_failed' = (io_failed \/ outcome # "ok")
        /\ reset_done' = (reset_done \/ outcome = "ok")
        /\ file' = reset_progress(file, updated_products, processed_handles, outcome)[1]
        /\ updated_products' =
               reset_progress(file, updated_products, processed_handles, outcome)[2]
        /\ processed_handles' =
               reset_progress(file, updated_products, processed_handles, outcome)[3]
    /\ pc' = "reset_end"
    /\ UNCHANGED <<Marks, Source, output_csv, partial_export, max_products, products,
                   to_process, row_i, i, optimized_html, last_save, gen_calls,
                   reconciled, runs, crashed, sigs>>
    /\ Persist

\* return 0 of line 832
ResetExit ==
    /\ pc = "reset_end"
    /\ ProcessGone
    /\ exit_code' = "0"
    /\ UNCHANGED <<Source, Files, History, Counts>>

\* a repair that stores the keys and not the contents
reconcile_drops_contents(f) ==
    IF f.status = "ok" THEN OkFile(EmptyMap, list(DOMAIN f.up)) ELSE f

\* a repair that rewrites the file as it found it
reconcile_keeps_stale(f) == f

\* a repair that appends the keys to the stored list
reconcile_appends(f) ==
    IF f.status = "ok" THEN OkFile(f.up, f.ph \o list(DOMAIN f.up)) ELSE f

\* a repair that writes an empty 'processed_handles' list
reconcile_clears(f) == IF f.status = "ok" THEN OkFile(f.up, <<>>) ELSE f

\* fix_and_extract.py, lines 22-46: the repair of the progress file
reconcile(f) == IF f.status = "ok" THEN OkFile(f.up, list(DOMAIN f.up)) ELSE f

FixProgress ==
    /\ pc = "idle"
    /\ file' = reconcile(file)
    /\ file' # file
    /\ reconciled' = TRUE
    /\ UNCHANGED <<Marks, Source, output_csv, partial_export, pc, max_products,
                   updated_products, processed_handles, products, to_process,
                   row_i, i, optimized_html, last_save, gen_calls, sigs, faults,
                   io_failed, reset_done, runs, crashed>>
    /\ Persist

Next ==
    \/ Start
    \/ ReadRow
    \/ UpdateStart
    \/ LoopHead
    \/ Research
    \/ Generate
    \/ Record
    \/ Mark
    \/ SaveOpen
    \/ SaveDump
    \/ WriteOutput
    \/ Signal
    \/ HandlerSave
    \/ HandlerExport
    \/ HandlerExit
    \/ Reset
    \/ ResetProgress
    \/ ResetExit
    \/ FixProgress

Spec == Init /\ [][Next]_vars

\* death of the process (kill -9, power loss) inside the save_progress of
\* line 565, after open() has truncated the file and before the dump has
\* reached it
Crash ==
    /\ pc = "save_dump"
    /\ crashed' = [in_save |-> TRUE, key |-> to_process[i],
                   up |-> updated_products, ph |-> processed_handles]
    /\ ProcessGone
    /\ exit_code' = "killed"
    /\ UNCHANGED <<Source, Files, gen_calls, io_failed, reset_done, reconciled, runs,
                   Counts>>

NextCrash ==
    \/ Next
    \/ Crash

SpecCrash == Init /\ [][NextCrash]_vars

\* an exception that read_csv goes on after, with the rows read so far
ReadFails_ignored ==
    /\ pc = "read"
    /\ faults < MaxFaults
    /\ faults' = faults + 1
    /\ row_i' = Len(csv) + 1
    /\ UNCHANGED <<Marks, Source, Files, pc, max_products, updated_products,
                   processed_handles, products, to_process, i, optimized_html,
                   last_save, History, sigs>>

\* the source table is missing or cannot be read: open() or the reader of
\* lines 130-132 raises, read_csv has no handler, the except clause of main
\* (lines 872-874) prints the error and main returns 1
ReadFails ==
    /\ pc = "read"
    /\ faults < MaxFaults
    /\ faults' = faults + 1
    /\ ProcessGone
    /\ exit_code' = "1"
    /\ UNCHANGED <<Source, Files, History, sigs>>

NextSource ==
    \/ Next
    \/ ReadFails

\* the updater, the reset and the repair over a source table that may be
\* missing or unreadable
SpecSource == Init /\ [][NextSource]_vars

\* one updater process with the scheduling of the handler: once entered,
\* signal_handler runs its three statements to sys.exit
StartOnce == runs = 0 /\ Start

NextOnce ==
    \/ StartOnce
    \/ ReadRow
    \/ UpdateStart
    \/ LoopHead
    \/ Research
    \/ Generate
    \/ Record
    \/ Mark
    \/ SaveOpen
    \/ SaveDump
    \/ WriteOutput
    \/ Signal
    \/ HandlerSave
    \/ HandlerExport
    \/ HandlerExit

FairSpec ==
    /\ Init
    /\ [][NextOnce]_vars
    /\ WF_vars(HandlerSave)
    /\ WF_vars(HandlerExport)
    /\ WF_vars(HandlerExit)

\* ---------------------------------------------------- record on any state
MaxRecords == 2     \* generations of one key

Contents ==
    {AiHtml(k) : k \in Handles} \cup {generate_fallback_description(k) : k \in Handles}

\* lines 560-562 applied to any key, whatever the checkpoint state holds:
\* a process between two records, with any processed set
InitRecord ==
    /\ csv = <<>>
    /\ file = AbsentFile
    /\ output_csv = NotWritten
    /\ partial_export = NotWritten
    /\ pc = "save_open"
    /\ max_products = 0
    /\ updated_products = EmptyMap
    /\ processed_handles \in SUBSET Handles
    /\ products = <<>>
    /\ to_process \in {<<k>> : k \in Handles}
    /\ row_i = 1
    /\ i = 1
    /\ optimized_html = ""
    /\ gen_calls = [k \in Handles |-> 0]
    /\ io_failed = FALSE
    /\ last_save = "none"
    /\ reset_done = FALSE
    /\ reconciled = FALSE
    /\ runs = 1
    /\ sigs = 0
    /\ faults = 0
    /\ at_signal = NoSignal
    /\ api_failed = {}
    /\ exit_code = "none"
    /\ persisted = IF file.status = "ok" THEN file.up ELSE EmptyMap
    /\ crashed = NoCrash
    /\ tool = NoTool

\* line 560 for a key and a content chosen freely
GenerateAny ==
    /\ pc = "save_open"
    /\ \E k \in Handles, v \in Contents :
        /\ gen_calls[k] < MaxRecords
        /\ gen_calls' = [gen_calls EXCEPT ![k] = @ + 1]
        /\ to_process' = <<k>>
        /\ optimized_html' = v
    /\ pc' = "record"
    /\ UNCHANGED <<Marks, Source, Files, max_products, updated_products,
                   processed_handles, products, row_i, i, last_save,
                   io_failed, reset_done, reconciled, runs, crashed, Counts>>

NextRecord ==
    \/ GenerateAny
    \/ Record
    \/ Mark

SpecRecord == InitRecord /\ [][NextRecord]_vars

\* ------------------------------------------------- the scripts' listings
MaxToolRows == 3    \* rows of the source table the readers are run over

\* the limits of the listing loops (30 in show_next_30.py, 10 in the other
\* scripts), scaled to the size of the tables
ScriptLimits == {1, 2}

EmptyHandleRow == [Handle |-> " ", Title |-> "T", Body |-> "B"]
\* a later full row of product a, its handle padded with a blank
PaddedRow == [Handle |-> " a", Title |-> "T2", Body |-> "B"]

ToolRows == Rows \cup {EmptyHandleRow, PaddedRow}
ToolCatalogs == SeqsUpTo(ToolRows, MaxToolRows)

\* the progress files the updater and fix_and_extract leave behind
ToolFiles ==
    {AbsentFile, TruncFile} \cup
    {OkFile([k \in D |-> AiHtml(k)], list(P)) :
        <<D, P>> \in {x \in (SUBSET Handles) \X (SUBSET Handles) : x[1] \subseteq x[2]}}

\* "if handle and title and body_html" of the scripts
RequiredFields(row) ==
    /\ Strip(row.Handle) # ""
    /\ Strip(row.Title) # ""
    /\ Strip(row.Body) # ""

\* a comparison against the handles as they stand in the table, untrimmed
HandlesOf_untrimmed(rows, listing) == {rows[listing[n]].Handle : n \in 1..Len(listing)}

\* the handles of the rows a listing holds
HandlesOf(rows, listing) == {Strip(rows[listing[n]].Handle) : n \in 1..Len(listing)}

\* a listing loop that never breaks
Full_never(listing, n) == FALSE

\* "if len(...) >= 30: break" and its copies
Full(listing, n) == Len(listing) >= n

\* load_progress_file of extract_next_10_products.py
load_progress_file(f) == IF f.status = "ok" THEN set(f.ph) ELSE {}

Process == <<pc, max_products, updated_products, processed_handles, products,
             to_process, row_i, i, optimized_html, last_save>>

NoScript == pc = "idle" /\ runs = 0 /\ tool.name = "none"

\* a script that loads the progress file outside any try block
\* (show_next_30.py 20-36, debug_progress.py 19-24, fix_and_extract.py
\* 23-28): pickle.load raises on a file it cannot read
ScriptLoad(name, f, n) ==
    IF f.status = "trunc"
    THEN [NoTool EXCEPT !.name = name, !.at = "raised"]
    ELSE [NoTool EXCEPT !.name = name, !.at = "rows", !.limit = n,
                        !.processed_handles = IF f.status = "ok" THEN set(f.ph) ELSE {}]

\* show_next_30.py, lines 14-41
ShowStart ==
    /\ NoScript
    /\ \E n \in ScriptLimits : tool' = ScriptLoad("show_next_30", file, n)
    /\ UNCHANGED <<csv, Files, Process, Marks, History, Counts>>

\* a loop that handles its row and does not move to the next one
ShowRow_stuck ==
    /\ tool.name = "show_next_30" /\ tool.at = "rows"
    /\ tool.row <= Len(csv)
    /\ LET row == csv[tool.row]
           h == Strip(row.Handle)
           add == /\ RequiredFields(row)
                  /\ h \notin tool.processed_handles
                  /\ h \notin HandlesOf(csv, tool.next_products)
           np == IF add THEN Append(tool.next_products, tool.row)
                 ELSE tool.next_products
       IN tool' = [tool EXCEPT !.next_products = np,
                               !.at = IF add /\ Full(np, tool.limit)
                                      THEN "done" ELSE "rows"]
    /\ UNCHANGED <<csv, Files, Process, Marks, History, Counts>>

\* show_next_30.py, one row of the loop of lines 46-64
ShowRow ==
    /\ tool.name = "show_next_30" /\ tool.at = "rows"
    /\ tool.row <= Len(csv)
    /\ LET row == csv[tool.row]
           h == Strip(row.Handle)
           add == /\ RequiredFields(row)
                  /\ h \notin tool.processed_handles
                  /\ h \notin HandlesOf(csv, tool.next_products)
           np == IF add THEN Append(tool.next_products, tool.row)
                 ELSE tool.next_products
       IN tool' = [tool EXCEPT !.next_products = np,
                               !.row = @ + 1,
                               !.at = IF add /\ Full(np, tool.limit)
                                      THEN "done" ELSE "rows"]
    /\ UNCHANGED <<csv, Files, Process, Marks, History, Counts>>

\* show_next_30.py, lines 66-86 after the source is exhausted
ShowEnd ==
    /\ tool.name = "show_next_30" /\ tool.at = "rows"
    /\ tool.row > Len(csv)
    /\ tool' = [tool EXCEPT !.at = "done"]
    /\ UNCHANGED <<csv, Files, Process, Marks, History, Counts>>

\* debug_progress.py, lines 19-47
DebugStart ==
    /\ NoScript
    /\ \E n \in ScriptLimits : tool' = ScriptLoad("debug_progress", file, n)
    /\ UNCHANGED <<csv, Files, Process, Marks, History, Counts>>

\* debug_progress.py, one row of the loop of lines 50-58
DebugCsvRow ==
    /\ tool.name = "debug_progress" /\ tool.at = "rows"
    /\ tool.row <= Len(csv)
    /\ LET row == csv[tool.row]
           add == /\ RequiredFields(row)
                  /\ Strip(row.Handle) \notin HandlesOf(csv, tool.unique_products)
       IN tool' = [tool EXCEPT !.unique_products =
                                   IF add THEN Append(@, tool.row) ELSE @,
                               !.row = @ + 1]
    /\ UNCHANGED <<csv, Files, Process, Marks, History, Counts>>

\* debug_progress.py, lines 60-81: the second listing is made only when
\* the progress file exists
DebugCsvEnd ==
    /\ tool.name = "debug_progress" /\ tool.at = "rows"
    /\ tool.row > Len(csv)
    /\ tool' = IF file.status = "absent"
               THEN [tool EXCEPT !.at = "done"]
               ELSE [tool EXCEPT !.at = "next", !.row = 1,
                                 !.processed_handles = set(file.ph)]
    /\ UNCHANGED <<csv, Files, Process, Marks, History, Counts>>

\* debug_progress.py, one row of the loop of lines 82-96
DebugNextRow ==
    /\ tool.name = "debug_progress" /\ tool.at = "next"
    /\ tool.row <= Len(csv)
    /\ LET row == csv[tool.row]
           h == Strip(row.Handle)
           add == /\ RequiredFields(row)
                  /\ h \notin tool.processed_handles
                  /\ h \notin HandlesOf(csv, tool.next_products)
           np == IF add THEN Append(tool.next_products, tool.row)
                 ELSE tool.next_products
       IN tool' = [tool EXCEPT !.next_products = np,
                               !.row = @ + 1,
                               !.at = IF add /\ Full(np, tool.limit)
                                      THEN "done" ELSE "next"]
    /\ UNCHANGED <<csv, Files, Process, Marks, History, Counts>>

\* debug_progress.py, lines 98-100 after the source is exhausted
DebugNextEnd ==
    /\ tool.name = "debug_progress" /\ tool.at = "next"
    /\ tool.row > Len(csv)
    /\ tool' = [tool EXCEPT !.at = "done"]
    /\ UNCHANGED <<csv, Files, Process, Marks, History, Counts>>

\* an extraction loop that lists processed products too
ExtractStep_lists_processed(t, rows) ==
    LET row == rows[t.row]
        h == Strip(row.Handle)
        add == h \notin HandlesOf(rows, t.unique_products)
        up == IF add THEN Append(t.unique_products, t.row) ELSE t.unique_products
    IN IF RequiredFields(row)
       THEN [t EXCEPT !.unique_products = up,
                      !.all_rows = Append(@, t.row),
                      !.row = @ + 1,
                      !.at = IF Full(up, t.limit) THEN "write" ELSE "rows"]
       ELSE [t EXCEPT !.row = @ + 1]

\* one row of the extraction loop that extract_next_10_products.py (lines
\* 44-61) and fix_and_extract.py (lines 63-80) share
ExtractStep(t, rows) ==
    LET row == rows[t.row]
        h == Strip(row.Handle)
        add == /\ h \notin HandlesOf(rows, t.unique_products)
               /\ h \notin t.processed_handles
        up == IF add THEN Append(t.unique_products, t.row) ELSE t.unique_products
    IN IF RequiredFields(row)
       THEN [t EXCEPT !.unique_products = up,
                      !.all_rows = Append(@, t.row),
                      !.row = @ + 1,
                      !.at = IF Full(up, t.limit) THEN "write" ELSE "rows"]
       ELSE [t EXCEPT !.row = @ + 1]

\* the rows of all_rows whose handle is one of the extracted products
\* (extract_next_10_products.py 68-74, fix_and_extract.py 91-97)
RECURSIVE OutputRows(_, _, _)
OutputRows(rows, all, targets) ==
    IF all = <<>> THEN <<>>
    ELSE IF Strip(rows[Head(all)].Handle) \in targets
         THEN <<Head(all)>> \o OutputRows(rows, Tail(all), targets)
         ELSE OutputRows(rows, Tail(all), targets)

\* extract_next_10_products.py, lines 33-42
ExtractStart ==
    /\ NoScript
    /\ \E n \in ScriptLimits :
          tool' = [NoTool EXCEPT !.name = "extract_next_10", !.at = "rows",
                                 !.limit = n,
                                 !.processed_handles = load_progress_file(file)]
    /\ UNCHANGED <<csv, Files, Process, Marks, History, Counts>>

ExtractRow ==
    /\ tool.name = "extract_next_10" /\ tool.at = "rows"
    /\ tool.row <= Len(csv)
    /\ tool' = ExtractStep(tool, csv)
    /\ UNCHANGED <<csv, Files, Process, Marks, History, Counts>>

\* extract_next_10_products.py, lines 63-87
ExtractWrite ==
    /\ tool.name = "extract_next_10"
    /\ tool.at = "write" \/ (tool.at = "rows" /\ tool.row > Len(csv))
    /\ tool' = [tool EXCEPT
                  !.at = "done",
                  !.written = TRUE,
                  !.output_rows = OutputRows(csv, tool.all_rows,
                                             HandlesOf(csv, tool.unique_products))]
    /\ UNCHANGED <<csv, Files, Process, Marks, History, Counts>>

\* fix_and_extract.py, lines 22-61: the repair, then the start of the
\* extraction with the repaired set
FixStart ==
    /\ NoScript
    /\ \E n \in ScriptLimits :
          tool' = [ScriptLoad("fix_and_extract", file, n) EXCEPT
                     !.loaded_handles = IF file.status = "ok" THEN set(file.ph) ELSE {},
                     !.processed_handles = DOMAIN file.up]
    /\ file' = reconcile(file)
    /\ UNCHANGED <<csv, output_csv, partial_export, Process, Marks, History, Counts>>
    /\ Persist

FixRow ==
    /\ tool.name = "fix_and_extract" /\ tool.at = "rows"
    /\ tool.row <= Len(csv)
    /\ tool' = ExtractStep(tool, csv)
    /\ UNCHANGED <<csv, Files, Process, Marks, History, Counts>>

\* fix_and_extract.py, lines 82-110: nothing is written when no product
\* was found
FixWrite ==
    /\ tool.name = "fix_and_extract"
    /\ tool.at = "write" \/ (tool.at = "rows" /\ tool.row > Len(csv))
    /\ tool' = IF tool.unique_products = <<>>
               THEN [tool EXCEPT !.at = "done"]
               ELSE [tool EXCEPT
                       !.at = "done",
                       !.written = TRUE,
                       !.output_rows = OutputRows(csv, tool.all_rows,
                                                  HandlesOf(csv, tool.unique_products))]
    /\ UNCHANGED <<csv, Files, Process, Marks, History, Counts>>

\* the readers of the source table, each run once over any table and any
\* progress file: the updater up to the end of read_csv, and the scripts
InitTools ==
    /\ csv \in ToolCatalogs
    /\ file \in ToolFiles
    /\ output_csv = NotWritten
    /\ partial_export = NotWritten
    /\ pc = "idle"
    /\ max_products = 0
    /\ updated_products = EmptyMap
    /\ processed_handles = {}
    /\ products = <<>>
    /\ to_process = <<>>
    /\ row_i = 1
    /\ i = 1
    /\ optimized_html = ""
    /\ gen_calls = [k \in Handles |-> 0]
    /\ io_failed = FALSE
    /\ last_save = "none"
    /\ reset_done = FALSE
    /\ reconciled = FALSE
    /\ runs = 0
    /\ sigs = 0
    /\ faults = 0
    /\ at_signal = NoSignal
    /\ api_failed = {}
    /\ exit_code = "none"
    /\ persisted = IF file.status = "ok" THEN file.up ELSE EmptyMap
    /\ crashed = NoCrash
    /\ tool = NoTool

ReaderStart == tool.name = "none" /\ StartOnce

NextTools ==
    \/ ReaderStart
    \/ ReadRow
    \/ UpdateStart
    \/ ShowStart
    \/ ShowRow
    \/ ShowEnd
    \/ DebugStart
    \/ DebugCsvRow
    \/ DebugCsvEnd
    \/ DebugNextRow
    \/ DebugNextEnd
    \/ ExtractStart
    \/ ExtractRow
    \/ ExtractWrite
    \/ FixStart
    \/ FixRow
    \/ FixWrite

SpecTools == InitTools /\ [][NextTools]_vars

\* ------------------------------------------------- repair, then the updater
\* the updater started once fix_and_extract has ended
RepairedStart == tool.name = "fix_and_extract" /\ tool.at = "done" /\ StartOnce

NextRepair ==
    \/ FixStart
    \/ FixRow
    \/ FixWrite
    \/ RepairedStart
    \/ ReadRow
    \/ UpdateStart

\* fix_and_extract over any table and any progress file, followed by an
\* updater run up to the end of read_csv
SpecRepair == InitTools /\ [][NextRepair]_vars

\* ------------------------------------------------------ one run, scheduled
\* one run of the updater or of show_next_30 on a fresh directory
NextRun ==
    \/ ReaderStart
    \/ ReadRow
    \/ UpdateStart
    \/ LoopHead
    \/ Research
    \/ Generate
    \/ Record
    \/ Mark
    \/ SaveOpen
    \/ SaveDump
    \/ WriteOutput
    \/ Signal
    \/ HandlerSave
    \/ HandlerExport
    \/ HandlerExit
    \/ ShowStart
    \/ ShowRow
    \/ ShowEnd

\* the next statement of the running program: everything but the start of
\* a process and the delivery of a signal
Proceed ==
    \/ ReadRow
    \/ UpdateStart
    \/ LoopHead
    \/ Research
    \/ Generate
    \/ Record
    \/ Mark
    \/ SaveOpen
    \/ SaveDump
    \/ WriteOutput
    \/ HandlerSave
    \/ HandlerExport
    \/ HandlerExit
    \/ ShowRow
    \/ ShowEnd

\* a started program keeps executing: its calls to the network return or
\* raise
FairRun == Init /\ [][NextRun]_vars /\ WF_vars(Proceed)

\* ------------------------------------------------------------ properties
\* a row that represents a product: key, name and description non-empty
\* after trimming
Eligible(row) ==
    /\ Strip(row.Handle) # ""
    /\ Strip(row.Title) # ""
    /\ Strip(row.Body) # ""

Range(s) == {s[n] : n \in 1..Len(s)}

\* the distinct eligible keys of the first n rows that are not in P, in
\* file order
RECURSIVE CandidatesUpTo(_, _, _)
CandidatesUpTo(rows, P, n) ==
    IF n = 0 THEN <<>>
    ELSE LET prev == CandidatesUpTo(rows, P, n - 1)
             h == Strip(rows[n].Handle)
         IN IF Eligible(rows[n]) /\ h \notin P /\ h \notin Range(prev)
            THEN Append(prev, h) ELSE prev

Candidates(rows, P) == CandidatesUpTo(rows, P, Len(rows))

\* read_csv has returned in the running process
ReadFinished ==
    pc \in {"loop", "research", "generate", "record", "mark", "save_open",
            "save_dump", "write"}

\* the step that ends read_csv and fixes the batch
BatchFixed == pc = "read" /\ pc' \in {"loop", "write"}

Max(x, y) == IF x > y THEN x ELSE y

\* C1: once read_csv has returned, every product of the source whose
\* content is not stored in updated_products is in the candidate list,
\* whatever earlier runs were interrupted, cut off by the limit or failed.
C1_UncompletedIsCandidate ==
    ReadFinished =>
        \A n \in 1..Len(csv) :
            (Eligible(csv[n]) /\ Strip(csv[n].Handle) \notin DOMAIN updated_products)
                => Strip(csv[n].Handle) \in Range(products)

\* C2: every progress file written holds processed_handles equal to the
\* keys of updated_products.
C2_ProcessedEqualsCompleted ==
    file.status = "ok" => set(file.ph) = DOMAIN file.up

\* C3: over updater runs with no reset, no repair and every load and
\* persist succeeding, the generation step is invoked at most once per key
\* and never for a key that is in updated_products.
C3_GenerateAtMostOnce ==
    (~io_failed /\ ~reset_done /\ ~reconciled) =>
        /\ \A k \in Handles : gen_calls[k] <= 1
        /\ pc = "generate" => to_process[i] \notin DOMAIN updated_products

\* a second run that has loaded a key whose generation the first run
\* completed and has read its row again
C3_Witness ==
    /\ ~io_failed /\ ~reset_done /\ ~reconciled
    /\ runs = 2
    /\ pc = "loop" /\ i = 1
    /\ \E n \in 1..Len(csv) :
        /\ Eligible(csv[n])
        /\ gen_calls[Strip(csv[n].Handle)] = 1
        /\ Strip(csv[n].Handle) \in DOMAIN updated_products

\* C4 as stated: the batch is the first N candidates, however many
\* products are already completed.
C4_BatchIsFirstN ==
    [][BatchFixed =>
        to_process' = (IF max_products = 0
                       THEN Candidates(csv, load_progress(file)[2])
                       ELSE Take(Candidates(csv, load_progress(file)[2]),
                                 max_products))]_vars

\* C4 amended: the limit is cumulative; with c products completed at the
\* start of the run the batch is the first max(0, N - c) candidates.
C4_BatchIsFirstRemaining ==
    [][BatchFixed =>
        to_process' = (IF max_products = 0
                       THEN Candidates(csv, load_progress(file)[2])
                       ELSE Take(Candidates(csv, load_progress(file)[2]),
                                 Max(0, max_products
                                        - Cardinality(DOMAIN load_progress(file)[1]))))]_vars

\* a run that starts with one product completed and a limit of two
C4_Witness ==
    /\ pc = "loop" /\ i = 1
    /\ max_products = 2
    /\ DOMAIN updated_products = {"a"}
    /\ to_process = <<"b">>

\* C5: read_csv changes neither field of the checkpoint state, neither in
\* memory nor in the progress file.
C5_ReadCsvReadOnly ==
    [][(pc = "read" /\ pc' \in {"read", "loop", "write"}) =>
        /\ updated_products' = updated_products
        /\ processed_handles' = processed_handles
        /\ file' = file]_vars

\* the loaded contents after a restart
Without(f, k) == [x \in DOMAIN f \ {k} |-> f[x]]

\* C6: after a death of the process inside the save_progress that follows
\* record(k, v), every earlier persist having succeeded, the restart loads
\* the contents as they were before the record or as they are after it.
C6_CrashLeavesPreOrPost ==
    [][(pc = "idle" /\ crashed.in_save /\ ~io_failed /\ pc' = "read") =>
        \/ updated_products' = crashed.up
        \/ updated_products' = Without(crashed.up, crashed.key)]_vars

InHandler == pc \in {"h_save", "h_export", "h_exit"}

C8_SignalLeavesWholeCheckpoint ==
    (pc \in {"h_export", "h_exit"} /\ last_save = "ok") =>
        /\ file.status = "ok"
        /\ load_progress(file) = <<at_signal.up, at_signal.ph>>
        /\ updated_products = at_signal.up
        /\ \A k \in DOMAIN updated_products :
              k \in DOMAIN file.up /\ file.up[k] = updated_products[k]

\* a signal that came while save_progress had opened the file, or between
\* lines 561 and 562
C8_Witness ==
    /\ pc = "h_exit"
    /\ last_save = "ok"
    /\ at_signal.pc \in {"mark", "save_dump"}
    /\ Cardinality(DOMAIN updated_products) = 2

\* C9: when the generation of a candidate starts and the latest persist
\* succeeded, the progress file holds the content of every earlier
\* candidate of the batch that was completed.
C9_PersistedBeforeNext ==
    (pc = "generate" /\ last_save = "ok") =>
        \A j \in 1..(i - 1) :
            to_process[j] \in DOMAIN updated_products =>
                /\ file.status = "ok"
                /\ to_process[j] \in DOMAIN file.up
                /\ file.up[to_process[j]] = updated_products[to_process[j]]

\* the generation of the second candidate after the first was completed
C9_Witness ==
    /\ pc = "generate"
    /\ last_save = "ok"
    /\ i = 2
    /\ to_process[1] \in DOMAIN updated_products

\* C10 as stated: a key whose generation failed is in neither
\* updated_products nor the progress file.
C10_FailureRecordsNothing ==
    \A k \in api_failed :
        /\ k \notin DOMAIN updated_products
        /\ k \notin DOMAIN file.up

Advanced(k) == \E j \in 1..(i - 1) : j <= Len(to_process) /\ to_process[j] = k

\* C10 amended: when the OpenAI call fails the generation step returns
\* the fallback description, which the driver stores under the key,
\* persists and then advances; an exception that reaches the except clause
\* of the loop stores nothing and advances.
C10_FailureRecordsFallback ==
    /\ [](\A k \in api_failed :
            IF /\ i <= Len(to_process)
               /\ to_process[i] = k
               /\ (pc = "record" \/ (InHandler /\ at_signal.pc = "record"))
            THEN optimized_html = generate_fallback_description(k)
            ELSE /\ k \in DOMAIN updated_products
                 /\ updated_products[k] = generate_fallback_description(k)
                 /\ (Advanced(k) /\ last_save = "ok" /\ file.status = "ok") =>
                        /\ k \in DOMAIN file.up
                        /\ file.up[k] = generate_fallback_description(k))
    /\ [][(pc = "save_dump" /\ pc' = "loop") => i' = i + 1]_vars
    /\ [][(pc = "research" /\ pc' = "loop") =>
            /\ i' = i + 1
            /\ updated_products' = updated_products
            /\ file' = file]_vars

\* a failed OpenAI call whose fallback is stored and persisted, the loop
\* being at the next candidate
C10_Witness ==
    /\ pc = "research"
    /\ i = 2
    /\ to_process[1] \in api_failed
    /\ last_save = "ok"
    /\ file.up[to_process[1]] = generate_fallback_description(to_process[1])

\* a step that writes a table: the end of main or export_partial_results
WritesTable == pc \in {"write", "h_export"} /\ pc' \in {"idle", "h_exit"}

TableWritten == IF pc = "write" THEN output_csv'.rows ELSE partial_export'.rows

\* C11 as stated: in a written table every row whose key is in
\* updated_products, variant rows included, carries the stored content,
\* every other row equals the input, and count and order are the input's.
C11_EveryRowOfKeyReplaced ==
    [][WritesTable =>
        /\ Len(TableWritten) = Len(csv)
        /\ \A n \in 1..Len(csv) :
              IF Strip(csv[n].Handle) \in DOMAIN updated_products
              THEN TableWritten[n] =
                     [csv[n] EXCEPT !.Body = updated_products[Strip(csv[n].Handle)]]
              ELSE TableWritten[n] = csv[n]]_vars

\* C11 amended: the rows rewritten are the rows of a completed key whose
\* title and description are non-empty after trimming; every other row, a
\* variant row of a completed key included, and every other column equal
\* the input, in input order with the same count.
C11_ProductRowsReplaced ==
    [][WritesTable =>
        /\ Len(TableWritten) = Len(csv)
        /\ \A n \in 1..Len(csv) :
              IF Eligible(csv[n]) /\ Strip(csv[n].Handle) \in DOMAIN updated_products
              THEN TableWritten[n] =
                     [csv[n] EXCEPT !.Body = updated_products[Strip(csv[n].Handle)]]
              ELSE TableWritten[n] = csv[n]]_vars

\* a final table with the product row of a rewritten and the variant row of
\* a as in the source
C11_Witness ==
    /\ output_csv.written
    /\ Len(csv) = 2
    /\ csv[1] = ProductRow("a") /\ csv[2] = VariantRow("a")
    /\ output_csv.rows[1].Body \in {AiHtml("a"), generate_fallback_description("a")}
    /\ output_csv.rows[2] = csv[2]

\* every row is a product row and no two rows share a key
ValidDistinct(rows) ==
    /\ \A n \in 1..Len(rows) : Eligible(rows[n])
    /\ \A m, n \in 1..Len(rows) :
          Strip(rows[m].Handle) = Strip(rows[n].Handle) => m = n

\* C12: the first run of a behaviour starts with no progress file; when it
\* runs with limit N over M >= N valid distinct products and ends without a
\* failure or a signal, updated_products and the progress file hold exactly
\* the first N keys with their generated content, and the final table has
\* the first N rows rewritten and the others as in the source.
C12_EndToEnd ==
    [][(/\ pc = "write" /\ pc' = "idle"
        /\ runs = 1 /\ faults = 0
        /\ ValidDistinct(csv) /\ Len(csv) >= max_products) =>
        /\ DOMAIN updated_products
              = {Strip(csv[n].Handle) : n \in 1..max_products}
        /\ \A k \in DOMAIN updated_products : updated_products[k] = AiHtml(k)
        /\ file.status = "ok"
        /\ file.up = updated_products
        /\ output_csv'.rows =
              [n \in 1..Len(csv) |->
                  IF n <= max_products
                  THEN [csv[n] EXCEPT !.Body = AiHtml(Strip(csv[n].Handle))]
                  ELSE csv[n]]]_vars

\* the end of a first run with limit 1 over two products
C12_Witness ==
    /\ pc = "idle" /\ runs = 1 /\ faults = 0 /\ sigs = 0
    /\ csv = <<ProductRow("a"), ProductRow("b")>>
    /\ output_csv.written
    /\ output_csv.rows = <<[ProductRow("a") EXCEPT !.Body = AiHtml("a")],
                           ProductRow("b")>>
    /\ DOMAIN file.up = {"a"}

\* the key of row r of the source
KeyOf(r) == Strip(csv[r].Handle)

\* no eligible row of the same key stands before row r
FirstOfKey(r) ==
    \A m \in 1..(r - 1) : ~(Eligible(csv[m]) /\ KeyOf(m) = KeyOf(r))

\* a listing of rows holds no key twice and, for each key, its first
\* eligible row
DistinctFirstRows(listing) ==
    /\ \A j, k \in 1..Len(listing) : KeyOf(listing[j]) = KeyOf(listing[k]) => j = k
    /\ \A j \in 1..Len(listing) : FirstOfKey(listing[j])

\* C13: the product list of read_csv and the listings of the four scripts
\* hold no key twice, and the row taken for a key is the first eligible
\* row of that key in file order.
C13_FirstRowPerKey ==
    /\ [](/\ \A j, k \in 1..Len(products) : products[j] = products[k] => j = k
          /\ DistinctFirstRows(tool.next_products)
          /\ DistinctFirstRows(tool.unique_products))
    /\ [][(pc = "read" /\ Len(products') > Len(products)) =>
            /\ products' = Append(products, KeyOf(row_i))
            /\ FirstOfKey(row_i)]_vars

\* show_next_30 has listed two products from a table in which product a
\* has a second full row
C13_Witness ==
    /\ tool.name = "show_next_30" /\ tool.at = "done"
    /\ csv = <<ProductRow("a"), PaddedRow, ProductRow("b")>>
    /\ tool.next_products = <<1, 3>>

\* the processed set the reader started from
LoadedHandles == load_progress(file)[2]

\* every entry of a listing is an eligible row whose key is not processed
CandidatesOnly(listing) ==
    \A j \in 1..Len(listing) :
        Eligible(csv[listing[j]]) /\ KeyOf(listing[j]) \notin LoadedHandles

\* C14: a row whose key, title or description is empty after trimming is
\* never a candidate and is not counted toward the limit, and a row whose
\* key is in the processed set is never a candidate.
C14_OnlyEligibleUnprocessed ==
    /\ \A j \in 1..Len(products) :
          /\ products[j] \notin LoadedHandles
          /\ \E m \in 1..(row_i - 1) : Eligible(csv[m]) /\ KeyOf(m) = products[j]
    /\ Range(to_process) \subseteq Range(products)
    /\ CandidatesOnly(tool.next_products)
    /\ tool.name # "debug_progress" => CandidatesOnly(tool.unique_products)
    /\ \A j \in 1..Len(tool.unique_products) : Eligible(csv[tool.unique_products[j]])
    /\ tool.name \in {"show_next_30", "extract_next_10", "fix_and_extract"} =>
          /\ Len(tool.next_products) <= tool.limit
          /\ Len(tool.unique_products) <= tool.limit

\* read_csv over a table with a blank-title row of b, the product row of a
\* processed b and the product row of a, the limit being 1
C14_Witness ==
    /\ pc = "loop"
    /\ csv = <<BlankTitleRow("b"), ProductRow("b"), ProductRow("a")>>
    /\ LoadedHandles = {"b"}
    /\ max_products = 1
    /\ to_process = <<"a">>

\* the listing a script's limit applies to
Limited ==
    CASE tool.name = "show_next_30" -> tool.next_products
      [] tool.name = "debug_progress" /\ tool.at # "rows" -> tool.next_products
      [] tool.name \in {"extract_next_10", "fix_and_extract"} -> tool.unique_products
      [] OTHER -> <<>>

HasLimit ==
    /\ tool.at \notin {"none", "raised"}
    /\ ~(tool.name = "debug_progress" /\ tool.at = "rows")

\* C15 as stated: a reader given the limit N reads no row once it has
\* found N qualifying records.
C15_ReaderStopsAtLimit ==
    /\ [][(pc = "read" /\ row_i' = row_i + 1) => Len(products) < max_products]_vars
    /\ [][(HasLimit /\ tool'.row = tool.row + 1) => Len(Limited) < tool.limit]_vars

\* C15 amended: read_csv has no limit and reads every row of the source
\* (the limit is applied afterwards by the slice of
\* update_product_descriptions); the listing loops of the scripts read no
\* row after the one that gave them their N-th product.
C15_ScriptsStopAtLimit ==
    /\ [](ReadFinished => row_i = Len(csv) + 1)
    /\ [][(HasLimit /\ tool'.row = tool.row + 1) => Len(Limited) < tool.limit]_vars
    /\ [](HasLimit /\ Len(Limited) >= tool.limit =>
            /\ Len(Limited) = tool.limit
            /\ tool.row = Limited[tool.limit] + 1)

\* extract_next_10_products with limit 1 has stopped after the first row
\* of a table of three
C15_Witness ==
    /\ tool.name = "extract_next_10" /\ tool.at = "done"
    /\ tool.limit = 1
    /\ Len(csv) = 3
    /\ tool.row = 2

SavedOk ==
    /\ \/ pc = "save_dump" /\ pc' = "loop"
       \/ pc = "h_save" /\ pc' = "h_export"
    /\ last_save' = "ok"

C18_SaveFailureNonFatal ==
    /\ [][(pc \in {"save_open", "save_dump"} /\ faults' = faults + 1) =>
            /\ pc' = "loop"
            /\ i' = i + 1
            /\ to_process' = to_process
            /\ updated_products' = updated_products
            /\ processed_handles' = processed_handles]_vars
    /\ [][(pc = "h_save" /\ faults' = faults + 1) =>
            /\ pc' = "h_export"
            /\ updated_products' = updated_products
            /\ processed_handles' = processed_handles]_vars

\* the second candidate is being processed after the save of the first
\* failed, the content of the first still in memory
C18_Witness ==
    /\ pc = "research" /\ i = 2
    /\ last_save \in {"open_fail", "write_fail"}
    /\ to_process[1] \in DOMAIN updated_products
    /\ file.status # "ok"

\* C19: record(k, v) leaves k with the content v, whatever k held before,
\* every other key as it was and k in processed_handles; on a state that
\* already holds (k, v) it changes nothing.
C19_RecordLastWriteWins ==
    /\ [][(pc = "record" /\ pc' = "mark") =>
            /\ DOMAIN updated_products' = DOMAIN updated_products \cup {to_process[i]}
            /\ updated_products'[to_process[i]] = optimized_html
            /\ \A x \in DOMAIN updated_products \ {to_process[i]} :
                  updated_products'[x] = updated_products[x]]_vars
    /\ [][(pc = "mark" /\ pc' = "save_open") =>
            /\ processed_handles' = processed_handles \cup {to_process[i]}
            /\ updated_products' = updated_products]_vars
    /\ [][(/\ pc \in {"record", "mark"}
            /\ to_process[i] \in DOMAIN updated_products
            /\ updated_products[to_process[i]] = optimized_html
            /\ to_process[i] \in processed_handles) =>
            /\ updated_products' = updated_products
            /\ processed_handles' = processed_handles]_vars

\* key a was recorded twice, the second time with the fallback content,
\* and is the only key of both fields
C19_Witness ==
    /\ pc = "save_open"
    /\ gen_calls["a"] = 2 /\ gen_calls["b"] = 0
    /\ updated_products = ("a" :> generate_fallback_description("a"))
    /\ processed_handles = {"a"}

\* a step of the repair script that rewrites the progress file
Repaired ==
    /\ pc = "idle" /\ pc' = "idle"
    /\ file.status = "ok" /\ file'.status = "ok"
    /\ file' # file

\* C20: the repair of fix_and_extract leaves updated_products as stored and
\* stores as processed_handles exactly its keys, so that every key marked
\* processed without content is dropped.
C20_ReconcileKeepsCompleted ==
    [][Repaired =>
        /\ file'.up = file.up
        /\ set(file'.ph) = DOMAIN file.up
        /\ \A k \in set(file.ph) \ DOMAIN file.up : k \notin set(file'.ph)]_vars

\* after a run that completed a and had marked b, the repaired file holds
\* a alone in both fields
C20_Witness ==
    /\ pc = "idle" /\ runs = 1 /\ reconciled
    /\ \E n \in 1..Len(csv) : csv[n] = ProductRow("b")
    /\ file.status = "ok"
    /\ DOMAIN file.up = {"a"}
    /\ set(file.ph) = {"a"}

\* C21: a second run of the repair on the file the first run wrote stores
\* the same contents and the same processed_handles, no entry added or
\* dropped.
C21_ReconcileIdempotent ==
    [][Repaired =>
        /\ reconcile(file').status = "ok"
        /\ reconcile(file').up = file'.up
        /\ set(reconcile(file').ph) = set(file'.ph)
        /\ Len(reconcile(file').ph) = Len(file'.ph)]_vars

\* a repaired file with two completed products, b having been completed by
\* a second run after the repair of the first
C21_Witness ==
    /\ pc = "idle" /\ reconciled
    /\ file.status = "ok"
    /\ DOMAIN file.up = {"a", "b"}
    /\ set(file.ph) = {"a", "b"}
    /\ reconcile(file) = file

\* C22: a reset_progress whose os.remove does not fail leaves no progress
\* file and empty updated_products and processed_handles in memory, and a
\* load_progress of what it leaves yields the empty state.
C22_ResetThenLoadEmpty ==
    [][(pc = "reset" /\ pc' = "reset_end" /\ faults' = faults) =>
        /\ file' = AbsentFile
        /\ updated_products' = EmptyMap
        /\ processed_handles' = {}
        /\ load_progress(file') = <<EmptyMap, {}>>]_vars

\* reset_progress has returned in a process that had loaded a checkpoint
\* with a completed product
C22_Witness ==
    /\ pc = "reset_end"
    /\ reset_done
    /\ \E k \in Handles : gen_calls[k] > 0
    /\ ~io_failed
    /\ file = AbsentFile
    /\ updated_products = EmptyMap /\ processed_handles = {}

\* the candidates before position n that have no stored content
Unfinished(n) ==
    {j \in 1..(n - 1) : j <= Len(to_process) /\ to_process[j] \notin DOMAIN updated_products}

\* C23: in a run the batch is a prefix of the candidate list, which is in
\* file order; the loop index never goes back; a record writes the key of
\* the current position only, so no later candidate has content before it;
\* and a generation is invoked for the current candidate only, every
\* earlier candidate of the batch being completed or dropped by a failure.
C23_OneAtATimeInOrder ==
    [][/\ ReadFinished =>
            /\ products = Candidates(csv, processed_handles \ Range(products))
            /\ to_process = SubSeq(products, 1, Len(to_process))
       /\ (ReadFinished /\ pc' # "idle") => i' \in {i, i + 1}
       /\ (updated_products' # updated_products /\ pc \notin {"idle", "reset"}
           /\ pc' # "idle") =>
            /\ pc = "record"
            /\ DOMAIN updated_products' = DOMAIN updated_products \cup {to_process[i]}
            /\ \A j \in (i + 1)..Len(to_process) :
                   to_process[j] \notin DOMAIN updated_products'
       /\ gen_calls' # gen_calls =>
            /\ pc = "generate" /\ pc' = "record"
            /\ i \in 1..Len(to_process)
            /\ gen_calls' = [gen_calls EXCEPT ![to_process[i]] = @ + 1]
            /\ Cardinality(Unfinished(i)) <= faults]_vars

\* the second candidate of a batch has been written after the first
C23_Witness ==
    /\ pc = "mark" /\ i = 2
    /\ Len(to_process) = 2
    /\ to_process[1] # to_process[2]
    /\ {to_process[1], to_process[2]} \subseteq DOMAIN updated_products
    /\ gen_calls[to_process[1]] = 1 /\ gen_calls[to_process[2]] = 1

InLoop ==
    pc \in {"loop", "research", "generate", "record", "mark", "save_open", "save_dump"}

\* C24: a failure inside the loop (research, OpenAI call, save) keeps the
\* process in the loop with the same batch, at the same candidate or at the
\* next one; the loop is left only past the last candidate of the batch or
\* by a signal; and when it is left past the last candidate every candidate
\* has content except those dropped by a failure.
C24_FailureKeepsLooping ==
    [][/\ (InLoop /\ faults' # faults) =>
            /\ InLoop'
            /\ to_process' = to_process
            /\ i' \in {i, i + 1}
       /\ (InLoop /\ ~InLoop') =>
            \/ pc' = "write" /\ i' = Len(to_process) + 1
                 /\ Cardinality(Unfinished(i')) <= faults
            \/ pc' = "h_save"]_vars

\* the loop has ended normally after the first of two candidates was
\* dropped by a failure and the second was completed
C24_Witness ==
    /\ pc = "write" /\ sigs = 0 /\ faults = 1 /\ runs = 1
    /\ Len(to_process) = 2
    /\ to_process[1] \notin DOMAIN updated_products
    /\ to_process[2] \in DOMAIN updated_products
    /\ api_failed = {}

\* C25: while read_csv runs no generation is invoked, no save has been
\* made and no table is written; when the source table cannot be read the
\* process ends there with status 1, the progress file, the generation
\* count and the absence of an output table and of a partial export being
\* what they were.
C25_UnreadableSourceAborts ==
    [][/\ pc = "read" =>
            /\ gen_calls' = gen_calls
            /\ last_save = "none"
            /\ output_csv = NotWritten /\ partial_export = NotWritten
       /\ (pc = "read" /\ faults' # faults) =>
            /\ pc' = "idle"
            /\ exit_code' = "1"
            /\ file' = file
            /\ output_csv' = NotWritten /\ partial_export' = NotWritten]_vars

\* a second run found the source unreadable and returned 1, the checkpoint
\* of the first run being in place
C25_Witness ==
    /\ pc = "idle" /\ exit_code = "1"
    /\ runs = 2 /\ sigs = 0
    /\ file.status = "ok" /\ DOMAIN file.up # {}
    /\ output_csv = NotWritten

\* C26: the table the extraction writes holds exactly the rows of the
\* source whose handle is one of the extracted products, the rows without a
\* title or a description included.
C26_OutputHasEveryRowOfExtracted ==
    (tool.name \in {"extract_next_10", "fix_and_extract"} /\ tool.written) =>
        Range(tool.output_rows) =
            {n \in 1..Len(csv) :
                Strip(csv[n].Handle) \in HandlesOf(csv, tool.unique_products)}

\* the keys show_next_30 may list: rows with the required fields whose key
\* is not in the loaded processed_handles
ListableKeys ==
    {Strip(csv[n].Handle) : n \in {m \in 1..Len(csv) :
        RequiredFields(csv[m]) /\ Strip(csv[m].Handle) \notin tool.processed_handles}}

Min(x, y) == IF x < y THEN x ELSE y

C28_CompletedAreProcessed ==
    /\ DOMAIN updated_products \subseteq processed_handles
    /\ file.status = "ok" => DOMAIN file.up \subseteq set(file.ph)
    /\ DOMAIN at_signal.up \subseteq at_signal.ph

\* a signal came between lines 561 and 562 and the handler has saved the
\* memory of that point, the recorded key included
C28_Witness ==
    /\ pc = "h_export"
    /\ at_signal.pc = "mark"
    /\ last_save = "ok"
    /\ to_process[i] \in DOMAIN file.up
    /\ to_process[i] \in set(file.ph)

\* the number of products completed when the running process started
CompletedAtStart == Cardinality(DOMAIN updated_products \ Range(to_process))

\* C29: the batch of a run started with c completed products holds at most
\* max(0, max_products - c) candidates, the number show_progress_status
\* prints as remaining; a generation is invoked only for a position of the
\* batch that has no content yet; and during the run updated_products holds
\* at most max(max_products, c) keys.
C29_CumulativeCap ==
    [][/\ BatchFixed =>
            Len(to_process') <=
                show_progress_status(max_products, updated_products).remaining
       /\ gen_calls' # gen_calls =>
            /\ i \in 1..Len(to_process)
            /\ to_process[i] \notin DOMAIN updated_products
            /\ gen_calls' = [gen_calls EXCEPT ![to_process[i]] = @ + 1]
       /\ ReadFinished =>
            /\ Len(to_process) <= Max(0, max_products - CompletedAtStart)
            /\ Cardinality(DOMAIN updated_products)
                  <= Max(max_products, CompletedAtStart)]_vars

\* a run with limit 1 over two candidates has ended with one generation
C29_Witness ==
    /\ pc = "write" /\ runs = 1 /\ sigs = 0 /\ faults = 0
    /\ max_products = 1
    /\ Len(products) = 2 /\ Len(to_process) = 1
    /\ DOMAIN updated_products = {to_process[1]}
    /\ gen_calls[products[1]] = 1 /\ gen_calls[products[2]] = 0

\* C30: show_progress_status prints 0 remaining exactly when the number
\* of completed products is at least max_products, and exactly then
\* update_product_descriptions returns at once with an empty batch; a
\* process that is reading or about to write the table invokes no
\* generation and, unless a signal comes, leaves the progress file as it
\* is, so the run ends with the file it started with.
C30_LimitMetRunIsNoOp ==
    [][/\ BatchFixed =>
            /\ show_progress_status(max_products, updated_products).completed
                  <=> Cardinality(DOMAIN updated_products) >= max_products
            /\ show_progress_status(max_products, updated_products).completed
                  <=> pc' = "write"
            /\ pc' = "write" => to_process' = <<>>
       /\ pc \in {"read", "write"} =>
            /\ gen_calls' = gen_calls
            /\ pc' # "h_save" => file' = file
            /\ updated_products' = updated_products \/ pc' = "idle"]_vars

\* a second run with limit 1 finds one product completed and one candidate
\* left, and is about to write the table without having entered the loop
C30_Witness ==
    /\ pc = "write" /\ runs = 2 /\ sigs = 0 /\ faults = 0
    /\ max_products = 1
    /\ Cardinality(DOMAIN updated_products) = 1
    /\ Len(products) = 1 /\ to_process = <<>>
    /\ show_progress_status(max_products, updated_products).remaining = 0
    /\ last_save = "none"
    /\ file.status = "ok" /\ file.up = updated_products

\* C31: every checkpoint saved in full holds each key of the checkpoint
\* saved in full before it, no reset having come between, with the content
\* it had there.
C31_CompletedOnlyGrows ==
    [][file'.status = "ok" =>
        \A k \in DOMAIN persisted :
            k \in DOMAIN file'.up /\ file'.up[k] = persisted[k]]_vars

\* the keys of a listing, in the order listed
KeysListed(listing) == [j \in 1..Len(listing) |-> KeyOf(listing[j])]

\* the loop that makes the listing has ended
ListingFinished ==
    /\ HasLimit
    /\ tool.at \in {"write", "done"} \/ tool.row > Len(csv)
    /\ ~(tool.name = "debug_progress" /\ file.status = "absent")

\* C32: on the same source and the same processed set the listing of each
\* script is, at every row of its loop, a prefix of the product list of
\* read_csv, and once its loop has ended it is the first N entries of that
\* list (all of them when they are fewer than N); the list the updater
\* holds when read_csv returns is that list.
C32_CandidateComputationsAgree ==
    /\ [][BatchFixed => products = read_csv(csv, load_progress(file)[2])[1]]_vars
    /\ [](HasLimit =>
            LET all == read_csv(csv, tool.processed_handles)[1]
            IN /\ Len(Limited) <= Len(all)
               /\ KeysListed(Limited) = SubSeq(all, 1, Len(Limited))
               /\ ListingFinished => KeysListed(Limited) = Take(all, tool.limit))

\* extract_next_10_products has listed b, the one product of three rows
\* that the progress file does not hold
C32_Witness ==
    /\ tool.name = "extract_next_10" /\ tool.at = "done"
    /\ tool.limit = 2
    /\ tool.processed_handles = {"a"}
    /\ Len(csv) = 3
    /\ Eligible(csv[1]) /\ KeyOf(1) = "a"
    /\ KeysListed(tool.unique_products) = <<"b">>

\* the keys the progress file marked processed without content when
\* fix_and_extract loaded it, that have an eligible row in the source
StaleEligible ==
    {k \in tool.loaded_handles \ DOMAIN file.up :
        \E n \in 1..Len(csv) : Eligible(csv[n]) /\ KeyOf(n) = k}

\* the first eligible row of key k
FirstRowOf(k) ==
    CHOOSE n \in 1..Len(csv) : Eligible(csv[n]) /\ KeyOf(n) = k /\ FirstOfKey(n)

\* C33: once fix_and_extract has rewritten a readable progress file, no
\* key that was marked processed without content is in the stored
\* processed_handles; when its extraction loop has ended each such key with
\* an eligible row is listed, unless the N products listed all stand before
\* it in the source; and the product list of the next updater run holds
\* every one of them.
C33_StaleKeysAreCandidatesAgain ==
    (tool.name = "fix_and_extract" /\ tool.at # "raised" /\ file.status = "ok") =>
        /\ StaleEligible \cap set(file.ph) = {}
        /\ ListingFinished =>
              \A k \in StaleEligible :
                  \/ k \in Range(KeysListed(tool.unique_products))
                  \/ /\ Len(tool.unique_products) = tool.limit
                     /\ \A j \in 1..tool.limit :
                            tool.unique_products[j] < FirstRowOf(k)
        /\ (pc \in {"loop", "write"}) => StaleEligible \subseteq Range(products)

\* the file held a and b as processed and only a as completed; the repair
\* has run, the extraction has listed b and the next updater run has b as
\* its only candidate
C33_Witness ==
    /\ tool.name = "fix_and_extract" /\ tool.at = "done"
    /\ tool.loaded_handles = {"a", "b"}
    /\ DOMAIN file.up = {"a"} /\ set(file.ph) = {"a"}
    /\ KeysListed(tool.unique_products) = <<"b">>
    /\ pc = "loop" /\ products = <<"b">>

\* C34: no step of show_next_30, debug_progress or extract_next_10_products
\* changes the progress file; a step of fix_and_extract changes it only
\* when it is readable, and then leaves updated_products as it was and
\* stores no handle that was not stored before.
C34_ScriptsLeaveContents ==
    [][/\ tool'.name \in {"show_next_30", "debug_progress", "extract_next_10"} =>
            file' = file
       /\ tool'.name = "fix_and_extract" =>
            /\ file'.status = file.status
            /\ file'.up = file.up
            /\ file.status # "ok" => file' = file
            /\ set(file'.ph) \subseteq set(file.ph) \cup DOMAIN file.up]_vars

\* fix_and_extract has ended after rewriting a file that held a completed
\* product and a handle without content
C34_Witness ==
    /\ tool.name = "fix_and_extract" /\ tool.at = "done" /\ pc = "idle"
    /\ tool.loaded_handles = {"a", "b"}
    /\ set(file.ph) = {"a"}
    /\ file.up = ("a" :> AiHtml("a"))

TypeOK ==
    /\ file.status \in {"absent", "ok", "trunc"}
    /\ pc \in {"idle", "read", "loop", "research", "generate", "record", "mark",
               "save_open", "save_dump", "write", "h_save", "h_export", "h_exit",
               "reset", "reset_end"}
    /\ exit_code \in {"none", "0", "1", "killed"}
    /\ DOMAIN persisted \subseteq Handles
    /\ DOMAIN updated_products \subseteq Handles
    /\ processed_handles \subseteq Handles

====
